---- MODULE Spec2Model ----
(***************************************************************************)
(* Model of the SNL scan backend: the job table of backend/main.py with    *)
(* its background task run_scan_job and the API handlers start_scan,       *)
(* cancel_scan and delete_scan, and the pure stages of the pipeline        *)
(* (FilteringLayer.prioritize, AIInterpretationLayer.interpret).           *)
(*                                                                         *)
(* run_scan_job is a plain function, so the framework runs it on a worker  *)
(* thread; the handlers are coroutines without an await and run on the     *)
(* event-loop thread, one at a time.  A worker statement can therefore     *)
(* fall between any two statements of a handler: every statement that      *)
(* reads or writes the job table is a step of its own.                     *)
(***************************************************************************)
EXTENDS Integers, Sequences, FiniteSets, TLC

VARIABLES cfg, jobs, history, io, files, taskPc, world, exc, invoked, api, nextId,
          raw, out, service, report, fnPc, proc, det, clock

vars == <<cfg, jobs, history, io, files, taskPc, world, exc, invoked, api, nextId,
          raw, out, service, report, fnPc, proc, det, clock>>

jobVars == <<cfg, jobs, history, io, files, taskPc, world, exc, invoked, api, nextId>>
detVars == <<proc, det, clock>>
fnVars == <<raw, out, service, report, fnPc, proc, det, clock>>

----------------------------------------------------------------------------
(* Bounds of the model *)

\* submissions in one run of the service
MaxJobs == 1

ScanIds == 1..MaxJobs

\* authenticated callers; the one who submits scans
Users == {"u1", "u2"}
Submitters == {"u1"}

Modes == {"quick", "deep"}

BenchmarkUrl == <<"http://", "testphp.vulnweb.com", "/">>
OtherUrl == <<"http://", "example.com", "/">>
Targets == {BenchmarkUrl, OtherUrl}

None == <<"None">>

----------------------------------------------------------------------------
(* Messages, as sequences of lower-cased words *)

NoAttackSurfaceMsg == <<"no", "attack", "surface", "discovered">>
DiscoveryTimedOutMsg == <<"discovery", "timed", "out">>
DiscoveryFailedMsg == <<"discovery", "failed:", "unknown", "error">>
KatanaMissingMsg == <<"katana", "binary", "missing">>
ValidationFailedMsg == <<"scanner", "validation", "failed:", "no", "findings",
                         "on", "benchmark", "target.">>
ScanModeTypeError == <<"scan()", "got", "an", "unexpected", "keyword",
                       "argument", "'mode'">>
CancelledMsg == <<"scan", "was", "cancelled", "by", "user">>

\* phrase occurs in msg as a run of consecutive words
Mentions(msg, phrase) ==
    \E i \in 0..(Len(msg) - Len(phrase)) :
        \A k \in 1..Len(phrase) : msg[i + k] = phrase[k]

\* "testphp.vulnweb.com" in str(target_url)
IsBenchmark(target) == \E i \in 1..Len(target) : target[i] = "testphp.vulnweb.com"

TerminalStatuses == {"completed", "failed", "cancelled"}

----------------------------------------------------------------------------
(* The environment of one run: what the discovery tool does, and what the  *)
(* detection tool does when it is launched on that run's endpoint list.    *)

\* valid finding lines the detection tool writes before it exits or hangs
Emitted == {0, 4}

NoWorld == [disc |-> "unset", det |-> "unset", emitted |-> 0]

\* the detection tool exits normally having found nothing, runs past the
\* timeout having written lines, or is not installed
Worlds == [disc : {"zero", "timeout", "failed", "missing"}, det : {"unset"}, emitted : {0}]
          \cup [disc : {"ok"}, det : {"normal", "missing"}, emitted : {0}]
          \cup [disc : {"ok"}, det : {"timeout"}, emitted : Emitted \ {0}]

\* the exception DiscoveryLayer.discover raises for an outcome
DiscoverError(o) ==
    CASE o = "zero" -> NoAttackSurfaceMsg
      [] o = "timeout" -> DiscoveryTimedOutMsg
      [] o = "failed" -> DiscoveryFailedMsg
      [] o = "missing" -> KatanaMissingMsg

----------------------------------------------------------------------------
(* The job table and its snapshot *)

NewJob(id, user, target, mode) ==
    [scan_id |-> id, user_id |-> user, target |-> target, mode |-> mode,
     status |-> "pending", result |-> None, error |-> None]

SetField(tbl, id, f, v) == [tbl EXCEPT ![id] = [@ EXCEPT ![f] = v]]

\* a delete that leaves the entry with its status cleared
RemoveSoftly(tbl, id) == [tbl EXCEPT ![id] = [@ EXCEPT !["status"] = "deleted"]]

Remove(tbl, id) == [k \in (DOMAIN tbl) \ {id} |-> tbl[k]]

Insert(tbl, id, job) == [k \in (DOMAIN tbl) \cup {id} |-> IF k = id THEN job ELSE tbl[k]]

EmptyTable == [k \in {} |-> None]

\* the event-loop thread: the handler it is in, and the response it is about
\* to send
NoResp == [code |-> 0, msg |-> <<>>]
ApiIdle == [op |-> "idle", id |-> 0, user |-> "-", resp |-> NoResp]

Ok(msg) == [code |-> 200, msg |-> msg]
HttpError(code, msg) == [code |-> code, msg |-> msg]

\* the handler returns r (or raises it as an HTTPException)
Return(id, r) == [op |-> "respond", id |-> id, user |-> "-", resp |-> r]
InHandler(op, id, user) == [op |-> op, id |-> id, user |-> user, resp |-> NoResp]

\* cfg: the request every submission of the run carries (url and mode)
\* the threads that call save_history: the event loop and the tasks' workers
LoopThread == 0
Threads == {LoopThread} \cup ScanIds

\* what the snapshot file holds when it is not the dump of a table
Truncated == [k \in {0} |-> "empty file"]
Garbled == [k \in {0} |-> "invalid json"]
NoBuf == [k \in {0} |-> "no open file"]

\* how save_history is taken: as one step that succeeds ("atomic"); as the two
\* steps open-and-dump and close ("steps"); as one step that fails, the file
\* being unwritable for the whole run so that open raises ("unwritable") or
\* the dump breaking off every time ("undumpable")
SaveModes == {"atomic", "steps", "unwritable", "undumpable"}

\* the results directory all jobs share: endpoints is the job whose
\* discovery wrote endpoints.txt last, 0 while nobody has
NoFiles == [endpoints |-> 0]

\* The requests of one run all name the same target and mode: the benchmark
\* host in deep mode, or another host in quick mode.  The service stores the
\* mode and passes it on; no statement branches on it.
JobInitWith(saves) ==
    /\ cfg \in {c \in [target : Targets, mode : Modes, save : saves] :
                   (c.mode = "deep") <=> (c.target = BenchmarkUrl)}
    /\ jobs = EmptyTable
    /\ history = EmptyTable
    /\ io = [t \in Threads |-> NoBuf]
    /\ files = NoFiles
    /\ taskPc = [id \in ScanIds |-> "unborn"]
    /\ world = [id \in ScanIds |-> NoWorld]
    /\ exc = [id \in ScanIds |-> None]
    /\ invoked = [id \in ScanIds |-> {}]
    /\ api = ApiIdle
    /\ nextId = 1

JobInit == JobInitWith({"atomic"})

\* no detection tool has been started
NoProc == [state |-> "none", open |-> FALSE, lines |-> <<>>, exists |-> FALSE, file |-> <<>>]
NoScan == [pc |-> "off", cmd |-> <<>>, nread |-> 0, findings |-> <<>>, eof |-> FALSE,
           waited |-> 0, fileRead |-> FALSE, result |-> <<>>]
DetIdle ==
    /\ proc = NoProc
    /\ det = NoScan
    /\ clock = 0

FnIdle ==
    /\ DetIdle
    /\ raw = <<>>
    /\ out = <<>>
    /\ service = "unused"
    /\ report = <<>>
    /\ fnPc = "off"

Init == JobInit /\ FnIdle

----------------------------------------------------------------------------
(* Findings.  A finding is the dict the detection parser builds; a key the  *)
(* dict does not hold carries Abs.  Every value is a sequence: a string is  *)
(* the sequence of its pieces (template ids and urls have several, as they *)
(* are put together into the deduplication key), tags are a list.          *)

Abs == <<"<absent>">>
NoScore == -1

Finding(tid, matched, host, type, sev, tags, name) ==
    [tid |-> tid, matched |-> matched, host |-> host, type |-> type,
     sev |-> sev, tags |-> tags, name |-> name, sn_score |-> NoScore]

\* d.get(k, default)
Get(v, default) == IF v = Abs THEN default ELSE v

\* str.lower() on the severities that occur
Lower(sv) ==
    CASE sv = "HIGH" -> "high"
      [] sv = "Critical" -> "critical"
      [] OTHER -> sv

\* IMPACT_WEIGHT.get(severity, 1)
IMPACT_WEIGHT(sv) ==
    CASE sv = "critical" -> 10
      [] sv = "high" -> 8
      [] sv = "medium" -> 5
      [] sv = "low" -> 2
      [] sv = "info" -> 1
      [] OTHER -> 1

EaseTags == {"header", "csp", "hsts", "tls", "ssl", "ratelimit", "redirect",
             "xss", "csrf", "sqli"}

EASE_OF_FIX(tag) ==
    CASE tag = "header" -> 10
      [] tag = "csp" -> 9
      [] tag = "hsts" -> 9
      [] tag = "tls" -> 8
      [] tag = "ssl" -> 8
      [] tag = "ratelimit" -> 7
      [] tag = "redirect" -> 6
      [] tag = "xss" -> 4
      [] tag = "csrf" -> 4
      [] tag = "sqli" -> 2

DefaultEase == 5

\* for tag in tags: if tag in EASE_OF_FIX: ease = EASE_OF_FIX[tag]; break
EaseOf(tags) ==
    LET hits == {i \in 1..Len(tags) : tags[i] \in EaseTags}
    IN  IF hits = {} THEN DefaultEase
        ELSE EASE_OF_FIX(tags[CHOOSE i \in hits : \A j \in hits : i <= j])

\* a confidence that ignores the kind
ConfidenceAlwaysHigh(f) == 8

\* confidence = 0.8 if finding.get("type") != "info" else 0.5, in tenths
ConfidenceTenths(f) == IF f.type # <<"info">> THEN 8 ELSE 5

\* calculate_score, in tenths (impact * ease is an integer, and the products
\* with 0.8 and 0.5 compare as floats the way these integers compare)
calculate_score(f) ==
    IMPACT_WEIGHT(Lower(Get(f.sev, <<"info">>)[1])) * EaseOf(Get(f.tags, <<>>))
        * ConfidenceTenths(f)

\* f.get('template-id') is None when the key is missing; str(None) = "None"
TemplateId(f) == Get(f.tid, None)

\* f.get('matched-at', f.get('host', 'unknown'))
MatchedAt(f) == Get(f.matched, Get(f.host, <<"unknown">>))

\* key = f"{template_id}-{matched_at}"
DedupKey(f) == TemplateId(f) \o <<"-">> \o MatchedAt(f)

\* a membership test that never finds the key
HoldsNever(acc, key) == FALSE

\* unique_findings, in insertion order: a finding enters unless its key is in
Holds(acc, key) == \E k \in 1..Len(acc) : DedupKey(acc[k]) = key

RECURSIVE Deduplicate(_, _, _)
Deduplicate(L, i, acc) ==
    IF i > Len(L) THEN acc
    ELSE Deduplicate(L, i + 1,
                     IF Holds(acc, DedupKey(L[i])) THEN acc ELSE Append(acc, L[i]))

\* the positions of the dicts that entered unique_findings
FirstOccurrences(L) ==
    LET keys == [i \in 1..Len(L) |-> DedupKey(L[i])]
    IN  {i \in 1..Len(L) : \A j \in 1..(i - 1) : keys[j] # keys[i]}

\* a score added to the stored one instead of replacing it
ScoredAccumulating(f) == [f EXCEPT !.sn_score = @ + calculate_score(f)]

\* f["sn_score"] = score
Scored(f) == [f EXCEPT !.sn_score = calculate_score(f)]

ScoreAll(L) == [i \in 1..Len(L) |-> Scored(L[i])]

\* a sort that puts a finding in front of the ones of equal score
RECURSIVE InsertDescUnstable(_, _)
InsertDescUnstable(sorted, f) ==
    IF sorted = <<>> THEN <<f>>
    ELSE IF Head(sorted).sn_score > f.sn_score
         THEN <<Head(sorted)>> \o InsertDescUnstable(Tail(sorted), f)
         ELSE <<f>> \o sorted

\* list.sort(key=sn_score, reverse=True): stable, equal scores keep their order
RECURSIVE InsertDesc(_, _)
InsertDesc(sorted, f) ==
    IF sorted = <<>> THEN <<f>>
    ELSE IF Head(sorted).sn_score >= f.sn_score
         THEN <<Head(sorted)>> \o InsertDesc(Tail(sorted), f)
         ELSE <<f>> \o sorted

RECURSIVE SortDesc(_, _, _)
SortDesc(L, i, acc) ==
    IF i > Len(L) THEN acc ELSE SortDesc(L, i + 1, InsertDesc(acc, L[i]))

TopN == 10

\* a slice one entry longer than the code's
TruncateEleven(L) == SubSeq(L, 1, IF Len(L) < TopN + 1 THEN Len(L) ELSE TopN + 1)

\* scored_findings[:10]
Truncate(L) == SubSeq(L, 1, IF Len(L) < TopN THEN Len(L) ELSE TopN)

\* FilteringLayer.prioritize: the list it returns
prioritize(L) ==
    IF L = <<>> THEN <<>>
    ELSE LET unique == Deduplicate(L, 1, <<>>)
             sorted == SortDesc(ScoreAll(unique), 1, <<>>)
             prioritized == Truncate(sorted)
         IN  IF Len(L) > 0 /\ Len(prioritized) = 0 THEN Truncate(L) ELSE prioritized

\* the caller's list afterwards: the retained dicts now carry sn_score
AfterPrioritize(L) ==
    LET firsts == FirstOccurrences(L)
    IN  [i \in 1..Len(L) |-> IF i \in firsts THEN Scored(L[i]) ELSE L[i]]

----------------------------------------------------------------------------
(* The stages applied to lists of findings.  Two families of input lists:  *)
(* long lists of findings that differ in url and severity (more than the   *)
(* cap), and short lists over findings of every shape the parser builds.   *)

MaxLong == 12
MaxRich == 2
\* the last place of a long list where a finding may repeat an earlier key
MaxDupPos == 4

LongChoices == {"critical", "low", "repeat", "collide"}

Repeats(L) == Cardinality({i \in 1..Len(L) : L[i].name \in {<<"again">>, <<"collide">>}})

\* the next finding of a long list: a new url under template "tpl-x"; or, once
\* in a list, the first finding's template and url again under another
\* severity ("repeat"), or template "tpl" at "x-<the first finding's url>"
\* ("collide")
LongFinding(L, c) ==
    CASE c = "repeat" ->
           Finding(L[1].tid, L[1].matched, Abs, <<"http">>, <<"medium">>, <<"xss">>, <<"again">>)
      [] c = "collide" ->
           Finding(<<"tpl">>, <<"x", "-">> \o L[1].matched, Abs, <<"http">>,
                   <<"critical">>, <<>>, <<"collide">>)
      [] OTHER ->
           Finding(<<"tpl", "-", "x">>, <<"http://h/", ToString(Len(L) + 1)>>, Abs, <<"http">>,
                   <<c>>, IF c = "low" THEN <<"header">> ELSE <<>>, <<"name">>)

\* a structured record of the detection tool
\* records the detection stage can hand over: decoded records with their
\* tags in either order, the same key again with another severity, one built
\* by the bracket pattern (no tags, no info.name, no host), one with only a
\* host, with no place, with the place "unknown", with no template-id, and
\* two whose template-id and matched-at contain a dash
RichFindings ==
    { Finding(<<"xss">>, <<"http://a/", "1">>, <<"a">>, <<"http">>, <<"high">>,
              <<"xss", "header">>, <<"reflected xss">>),
      Finding(<<"xss">>, <<"http://b/", "1">>, <<"b">>, <<"http">>, <<"high">>,
              <<"header", "xss">>, <<"reflected xss">>),
      Finding(<<"xss">>, <<"http://a/", "1">>, <<"a">>, <<"http">>, <<"Critical">>,
              <<"header", "xss">>, <<"reflected xss">>),
      Finding(<<"sqli">>, <<"http://a/", "2">>, Abs, <<"http">>, <<"critical">>, Abs, Abs),
      Finding(<<"tech">>, <<"http://a/", "1">>, <<"a">>, <<"info">>, <<"info">>,
              <<"tech">>, <<"technology">>),
      Finding(<<"tls">>, Abs, <<"a">>, <<"ssl">>, <<"HIGH">>, <<"ssl", "tls">>, <<"weak tls">>),
      Finding(<<"tls">>, Abs, Abs, <<"ssl">>, <<"weird">>, <<"misc">>, <<"weak tls">>),
      Finding(<<"tls">>, <<"unknown">>, Abs, <<"ssl">>, <<"medium">>, <<"csrf">>, <<"other">>),
      Finding(Abs, <<"http://a/", "1">>, Abs, Abs, Abs, <<"sqli", "xss">>, <<"anonymous">>),
      Finding(<<"a", "-", "b">>, <<"c">>, Abs, <<"http">>, <<"low">>, <<"redirect">>, <<"first">>),
      Finding(<<"a">>, <<"b", "-", "c">>, Abs, <<"http">>, <<"high">>, <<"ratelimit">>, <<"second">>) }

FnInit ==
    /\ JobInit
    /\ DetIdle
    /\ cfg = [target |-> OtherUrl, mode |-> "quick", save |-> "atomic"]
    /\ raw = <<>>
    /\ out = <<>>
    /\ service = "unused"
    /\ report = <<>>
    /\ fnPc = "start"

AddLong(c) ==
    /\ fnPc \in {"start", "long"}
    /\ Len(raw) < MaxLong
    /\ c \in {"repeat", "collide"}
          => (raw # <<>> /\ Len(raw) < MaxDupPos /\ Repeats(raw) = 0)
    /\ raw' = Append(raw, LongFinding(raw, c))
    /\ fnPc' = "long"
    /\ UNCHANGED <<jobVars, detVars, out, service, report>>

AddRich(f) ==
    /\ fnPc \in {"start", "rich"}
    /\ Len(raw) < MaxRich
    /\ raw' = Append(raw, f)
    /\ fnPc' = "rich"
    /\ UNCHANGED <<jobVars, detVars, out, service, report>>

\* prioritized = filter_layer.prioritize(raw_findings)
Prioritize ==
    /\ fnPc \in {"start", "long", "rich"}
    /\ out' = prioritize(raw)
    /\ raw' = AfterPrioritize(raw)
    /\ fnPc' = "prioritized"
    /\ UNCHANGED <<jobVars, detVars, service, report>>

PrioNext ==
    \/ \E c \in LongChoices : AddLong(c)
    \/ \E f \in RichFindings : AddRich(f)
    \/ Prioritize

SpecPrio == FnInit /\ [][PrioNext]_vars

\* C10: prioritize returns at most 10 findings, and at least one whenever
\* the raw input is not empty.
C10_AtMostTenNeverEmpty ==
    fnPc = "prioritized"
    => /\ Len(out) <= 10
       /\ raw # <<>> => Len(out) >= 1

\* more than ten distinct keys, and duplicates, went in
C10_Witness ==
    /\ fnPc = "prioritized"
    /\ Cardinality({DedupKey(raw[i]) : i \in 1..Len(raw)}) > 10
    /\ Cardinality({DedupKey(raw[i]) : i \in 1..Len(raw)}) < Len(raw)
    /\ Len(out) = 10

\* the key of the specification: the pair (templateId, matchedAt-or-host-or-"unknown")
PairKey(f) == <<TemplateId(f), MatchedAt(f)>>
DistinctPairs(L) == {PairKey(L[i]) : i \in 1..Len(L)}
\* the position of the first finding of L that carries the pair k
FirstWith(L, k) ==
    CHOOSE i \in 1..Len(L) : PairKey(L[i]) = k /\ \A j \in 1..(i - 1) : PairKey(L[j]) # k
\* the position in the input of a returned finding
InputPos(f) == CHOOSE p \in 1..Len(raw) : raw[p] = f /\ \A q \in 1..(p - 1) : raw[q] # f

\* C11: no two findings of the list prioritize returns have the same pair
\* (templateId, matchedAt), matchedAt falling back to host and to "unknown".
C11_RetainedKeysUnique ==
    fnPc = "prioritized"
    => \A i, j \in 1..Len(out) : i # j => PairKey(out[i]) # PairKey(out[j])

\* the input held the same pair twice and more than one finding came back
C11_Witness ==
    /\ fnPc = "prioritized"
    /\ \E i, j \in 1..Len(raw) : i < j /\ PairKey(raw[i]) = PairKey(raw[j])
    /\ Len(out) >= 2
    /\ Len(out) < Len(raw)

\* C12: the returned list is in non-increasing score order, and returned
\* findings of equal score are in the order of their places in the input.
C12_DescendingAndStable ==
    fnPc = "prioritized"
    => \A i, j \in 1..Len(out) :
          i < j => /\ out[i].sn_score >= out[j].sn_score
                   /\ out[i].sn_score = out[j].sn_score
                         => InputPos(out[i]) < InputPos(out[j])

\* the sort moved a finding forward, and two returned findings tie
C12_Witness ==
    /\ fnPc = "prioritized"
    /\ \E i, j \in 1..Len(out) :
          i < j /\ out[i].sn_score > out[j].sn_score /\ InputPos(out[i]) > InputPos(out[j])
    /\ \E i, j \in 1..Len(out) : i < j /\ out[i].sn_score = out[j].sn_score

\* C13: with at most 10 distinct pairs in the input, prioritize returns one
\* finding per distinct pair, the first input finding that carries it.
C13_OnePerKeyWithoutTruncation ==
    (fnPc = "prioritized" /\ Cardinality(DistinctPairs(raw)) <= 10)
    => /\ Len(out) = Cardinality(DistinctPairs(raw))
       /\ \A k \in DistinctPairs(raw) :
             \E i \in 1..Len(out) : out[i] = Scored(raw[FirstWith(raw, k)])

\* C30: an input finding is missing from what prioritize returns for an
\* input of at most 10 findings only if an earlier input finding has the
\* same pair (templateId, matchedAt): findings whose pairs differ in either
\* component are never duplicates of one another.
C30_DroppedOnlyOnSamePair ==
    (fnPc = "prioritized" /\ Len(raw) <= TopN)
    => \A i \in 1..Len(raw) :
          (\A k \in 1..Len(out) : out[k] # Scored(raw[i]))
          => \E j \in 1..(i - 1) : PairKey(raw[j]) = PairKey(raw[i])

\* C14: with more than 10 distinct pairs in the input, prioritize returns 10
\* findings; a first occurrence left out scores no more than any returned
\* finding, and on equal score it stands later in the input.
C14_TopTenKept ==
    (fnPc = "prioritized" /\ Cardinality(DistinctPairs(raw)) > 10)
    => /\ Len(out) = 10
       /\ \A k \in DistinctPairs(raw) :
             LET p == FirstWith(raw, k)
                 u == Scored(raw[p])
             IN  (\A i \in 1..Len(out) : out[i] # u)
                 => \A i \in 1..Len(out) :
                       /\ u.sn_score <= out[i].sn_score
                       /\ u.sn_score = out[i].sn_score => InputPos(out[i]) < p

\* C15: prioritize applied to its own output returns that output, the same
\* findings in the same order.
C15_Idempotent ==
    fnPc = "prioritized" => prioritize(out) = out

\* a run that dropped a duplicate, reordered and truncated
C15_Witness ==
    /\ fnPc = "prioritized"
    /\ Len(raw) > 11
    /\ Len(out) = 10
    /\ \E i \in 1..Len(out) : InputPos(out[i]) > i
    /\ prioritize(out) = out

\* the ease of the first entry of the table, in the table's order, that is
\* among the tags; 5 when none is
TableOrder ==
    <<"header", "csp", "hsts", "tls", "ssl", "ratelimit", "redirect", "xss", "csrf", "sqli">>
TableEase(tags) ==
    LET present == {n \in 1..Len(TableOrder) : \E i \in 1..Len(tags) : tags[i] = TableOrder[n]}
    IN  IF present = {} THEN 5
        ELSE EASE_OF_FIX(TableOrder[CHOOSE n \in present : \A m \in present : n <= m])
TagSet(f) == {Get(f.tags, <<>>)[i] : i \in 1..Len(Get(f.tags, <<>>))}
ImpactOf(f) == IMPACT_WEIGHT(Lower(Get(f.sev, <<"info">>)[1]))

\* C16: the score does not depend on the order of the tags: findings of the
\* same severity, tag set and kind score the same, the ease being that of the
\* first table entry present among the tags (5 if none).
C16_EaseFollowsTableOrder ==
    fnPc = "prioritized"
    => /\ \A i \in 1..Len(out) :
             out[i].sn_score
                = ImpactOf(out[i]) * TableEase(Get(out[i].tags, <<>>)) * ConfidenceTenths(out[i])
       /\ \A i, j \in 1..Len(out) :
             (/\ Get(out[i].sev, <<"info">>) = Get(out[j].sev, <<"info">>)
              /\ TagSet(out[i]) = TagSet(out[j])
              /\ out[i].type = out[j].type)
             => out[i].sn_score = out[j].sn_score

\* the weights of the severities, compared without regard to case
ClaimedImpact(sv) ==
    IF sv \in {"critical", "Critical"} THEN 10
    ELSE IF sv \in {"high", "HIGH"} THEN 8
    ELSE IF sv = "medium" THEN 5
    ELSE IF sv = "low" THEN 2
    ELSE 1
\* the eases the finding's tags can supply
ClaimedEases(f) ==
    LET hits == TagSet(f) \cap EaseTags
    IN  IF hits = {} THEN {5} ELSE {EASE_OF_FIX(t) : t \in hits}

----------------------------------------------------------------------------
(* AIInterpretationLayer.interpret.  The explanation service either raises, *)
(* answers with text that is no JSON, answers {"findings": null}, or        *)
(* answers with a list of zero, one or all of the explanations.             *)

Services == {"raises", "bad_json", "findings_null", "empty_list", "one_entry", "full"}
FailingServices == {"raises", "bad_json", "findings_null"}

\* f.get("info", {}).get("name")
InfoName(f) == Get(f.name, None)

AiExplanation(i) ==
    [what_is_wrong |-> <<"ai", ToString(i)>>, why_it_matters |-> <<"ai">>,
     how_to_fix |-> <<"ai">>]

\* the explanation built in the except clause; str + None is a TypeError
FallbackExplanation(f) ==
    [what_is_wrong |-> <<"automated finding: ">> \o InfoName(f),
     why_it_matters |-> <<"security risk.">>,
     how_to_fix |-> <<"check ">> \o TemplateId(f)]
FallbackRaises(f) == InfoName(f) = None \/ TemplateId(f) = None

\* the explanation filled in for an entry the answer does not reach
BackfillExplanation(f) ==
    [what_is_wrong |-> InfoName(f),
     why_it_matters |-> <<"security risk detected.">>,
     how_to_fix |-> <<"refer to official documentation for ">> \o TemplateId(f)]
BackfillRaises(f) == TemplateId(f) = None

ReportItem(f, interpretation) ==
    [id |-> TemplateId(f), name |-> InfoName(f), severity |-> Get(f.sev, None),
     url |-> Get(f.matched, None), interpretation |-> interpretation]

Returned(items) == [raised |-> FALSE, report |-> items]
TypeErrorRaised == [raised |-> TRUE, report |-> <<>>]

\* except Exception as e: return [ ... for f in prioritized_findings]
ExceptClause(L) ==
    IF \E i \in 1..Len(L) : FallbackRaises(L[i])
    THEN TypeErrorRaised
    ELSE Returned([i \in 1..Len(L) |-> ReportItem(L[i], FallbackExplanation(L[i]))])

\* entries the answer holds
Answered(L, svc) ==
    CASE svc = "empty_list" -> 0
      [] svc = "one_entry" -> 1
      [] svc = "full" -> Len(L)

interpret(L, svc) ==
    IF L = <<>> THEN Returned(<<>>)
    ELSE IF svc \in FailingServices THEN ExceptClause(L)
    ELSE LET k == Answered(L, svc)
         IN  IF \E i \in (k + 1)..Len(L) : BackfillRaises(L[i])
             THEN ExceptClause(L)
             ELSE Returned([i \in 1..Len(L) |->
                              ReportItem(L[i], IF i <= k THEN AiExplanation(i)
                                               ELSE BackfillExplanation(L[i]))])

\* final_report = ai_layer.interpret(prioritized)
Interpret(svc) ==
    /\ fnPc = "prioritized"
    /\ service' = svc
    /\ report' = interpret(out, svc).report
    /\ fnPc' = IF interpret(out, svc).raised THEN "interpret_raised" ELSE "interpreted"
    /\ UNCHANGED <<jobVars, detVars, raw, out>>

AiNext ==
    \/ \E f \in RichFindings : AddRich(f)
    \/ Prioritize
    \/ \E svc \in Services : Interpret(svc)

SpecAI == FnInit /\ [][AiNext]_vars

\* C9: when the explanation service fails, interpret returns one generic
\* explanation per prioritized finding, also for findings without info.name.
C9_ServiceFailureYieldsGenericReport ==
    (fnPc \in {"interpreted", "interpret_raised"} /\ service \in FailingServices)
    => /\ fnPc = "interpreted"
       /\ Len(report) = Len(out)
       /\ \A i \in 1..Len(report) :
             report[i].interpretation = FallbackExplanation(out[i])

----------------------------------------------------------------------------
(* DetectionLayer.scan and the detection tool it starts.  The tool writes   *)
(* lines to its standard output (a pipe scan reads) and its findings to    *)
(* the output file; it may close its output, exit, or do neither.  scan    *)
(* reads the pipe line by line until end of file, then waits for the exit  *)
(* with a timeout, kills the tool when the wait times out, and returns.    *)

\* lines the tool writes in one run
MaxLines == 2
\* the clock, started with the tool, is not counted beyond this
MaxClock == 3
\* communicate(timeout=30), in ticks of the clock
TimeoutTicks == 1
\* lines the tool writes to its output file in one run
MaxFileLines == 1

\* TEMPLATE_DIRS, in the order of the list
TEMPLATE_DIRS ==
    <<"http/misconfiguration/", "http/exposures/", "http/vulnerabilities/",
      "dast/vulnerabilities/", "ssl/", "http/technologies/">>

\* EXCLUDED_TAGS, as one comma-separated value
EXCLUDED_TAGS == "bruteforce,dos,network,intrusive"

\* the template directories found on disk: all, none, or two of them
DirChoices ==
    { {TEMPLATE_DIRS[i] : i \in 1..Len(TEMPLATE_DIRS)}, {},
      {TEMPLATE_DIRS[1], TEMPLATE_DIRS[5]} }

\* the command line built at lines 59-78: the fixed options, then "-t" and
\* the path for every template directory that exists
cmd(existing) ==
    LET t[i \in 0..Len(TEMPLATE_DIRS)] ==
          IF i = 0 THEN <<>>
          ELSE t[i - 1] \o (IF TEMPLATE_DIRS[i] \in existing
                              THEN <<"-t", TEMPLATE_DIRS[i]>> ELSE <<>>)
    IN  <<"nuclei", "-l", "endpoints.txt",
          "-severity", "info,low,medium,high,critical",
          "-rl", "50", "-timeout", "10", "-dast", "-silent",
          "-o", "raw_findings.json", "-stats", "-stats-interval", "1">>
        \o t[Len(TEMPLATE_DIRS)]

\* What a line holds: a JSON object, another JSON value (a number, a string,
\* null, a list), a text line matching the bracket pattern, a text line that
\* matches nothing, only white space, or brackets nested so deep that
\* json.loads raises RecursionError.
LineKinds == {"json", "scalar", "bracket", "noise", "blank", "nested"}

\* the line is appended to findings: json.loads succeeds (whatever value it
\* yields), or it raises JSONDecodeError and the bracket pattern matches
Parses(kind) == kind \in {"json", "scalar", "bracket"}

\* json.loads raises an exception that is no JSONDecodeError
Overflows(kind) == kind = "nested"

\* the findings of a sequence of lines none of which raises
Parsed(ls) == SelectSeq(ls, LAMBDA l : Parses(l.kind))

\* the lines written to the pipe and not read yet
Pipe == SubSeq(proc.lines, det.nread + 1, Len(proc.lines))

\* lines 152-176: the output file is read when the stream gave nothing and
\* the file exists; an exception while reading it returns the empty list
\* a scan that reads the output file whenever it exists
OpensFileWhenever(findings) == proc.exists

OpensFile(findings) == findings = <<>> /\ proc.exists

FromFile(findings) ==
    IF ~OpensFile(findings) THEN findings
    ELSE IF \E i \in 1..Len(proc.file) : Overflows(proc.file[i].kind) THEN <<>>
    ELSE Parsed(proc.file)

\* lines 90-94: the output file is removed, then
\* subprocess.Popen(cmd, stdout=PIPE, stderr=PIPE, text=True)
scan_Popen ==
    /\ det.pc = "start"
    /\ \E existing \in DirChoices :
         \/ /\ proc' = [NoProc EXCEPT !.state = "running", !.open = TRUE]
            /\ det' = [det EXCEPT !.pc = "readline", !.cmd = cmd(existing)]
         \/ \* the executable is missing: except Exception returns [], stats
            /\ proc' = NoProc
            /\ det' = [det EXCEPT !.pc = "returned", !.cmd = cmd(existing)]
    /\ UNCHANGED <<jobVars, clock, raw, out, service, report, fnPc>>

\* the tool writes a line to its standard output
proc_Emit(kind) ==
    /\ proc.state = "running" /\ proc.open
    /\ Len(proc.lines) < MaxLines
    /\ proc' = [proc EXCEPT !.lines = Append(@, [kind |-> kind, via |-> "stdout",
                                                 no |-> Len(@) + 1])]
    /\ UNCHANGED <<jobVars, det, clock, raw, out, service, report, fnPc>>

\* the tool writes a line to the file named by -o, creating it
proc_WriteFile(kind) ==
    /\ proc.state = "running"
    /\ Len(proc.file) < MaxFileLines
    /\ proc' = [proc EXCEPT !.exists = TRUE,
                            !.file = Append(@, [kind |-> kind, via |-> "file",
                                                no |-> Len(@) + 1])]
    /\ UNCHANGED <<jobVars, det, clock, raw, out, service, report, fnPc>>

\* the tool closes its standard output and keeps running
proc_CloseStdout ==
    /\ proc.state = "running" /\ proc.open
    /\ proc' = [proc EXCEPT !.open = FALSE]
    /\ UNCHANGED <<jobVars, det, clock, raw, out, service, report, fnPc>>

proc_Exit ==
    /\ proc.state = "running"
    /\ proc' = [proc EXCEPT !.state = "exited", !.open = FALSE]
    /\ UNCHANGED <<jobVars, det, clock, raw, out, service, report, fnPc>>

\* time passes: for the clock, and for the wait in communicate
Tick ==
    /\ det.pc \notin {"off", "start", "returned"}
    /\ clock < MaxClock \/ (det.pc = "communicate" /\ det.waited < TimeoutTicks)
    /\ clock' = IF clock < MaxClock THEN clock + 1 ELSE clock
    /\ det' = [det EXCEPT !.waited = IF det.pc = "communicate" /\ @ < TimeoutTicks
                                      THEN @ + 1 ELSE @]
    /\ UNCHANGED <<jobVars, proc, raw, out, service, report, fnPc>>

\* for stdout_line in iter(process.stdout.readline, ""): one line is there.
\* A blank line is skipped; a line json.loads accepts, or else the bracket
\* pattern matches, is appended; RecursionError leaves both try statements
\* for the handler at line 174, which returns [], stats.
scan_Readline ==
    /\ det.pc = "readline"
    /\ Pipe # <<>>
    /\ LET line == Head(Pipe)
       IN  det' = IF Overflows(line.kind)
                    THEN [det EXCEPT !.nread = @ + 1, !.pc = "returned", !.result = <<>>]
                    ELSE [det EXCEPT !.nread = @ + 1,
                                     !.findings = IF Parses(line.kind)
                                                    THEN Append(@, line) ELSE @]
    /\ UNCHANGED <<jobVars, proc, clock, raw, out, service, report, fnPc>>

\* readline returns "": the pipe is empty and its write end is closed.
\* While the write end is open and no line is there, readline blocks.
scan_EndOfFile ==
    /\ det.pc = "readline"
    /\ Pipe = <<>> /\ ~proc.open
    /\ det' = [det EXCEPT !.pc = "communicate", !.eof = TRUE, !.waited = 0]
    /\ UNCHANGED <<jobVars, proc, clock, raw, out, service, report, fnPc>>

\* process.communicate(timeout=30) returns: the tool has exited; lines
\* 128-172 follow
scan_Communicate ==
    /\ det.pc = "communicate"
    /\ proc.state = "exited"
    /\ det' = [det EXCEPT !.pc = "returned", !.fileRead = OpensFile(det.findings),
                          !.result = FromFile(det.findings)]
    /\ UNCHANGED <<jobVars, proc, clock, raw, out, service, report, fnPc>>

\* except subprocess.TimeoutExpired
scan_TimeoutExpired ==
    /\ det.pc = "communicate"
    /\ proc.state = "running"
    /\ det.waited >= TimeoutTicks
    /\ det' = [det EXCEPT !.pc = "kill"]
    /\ UNCHANGED <<jobVars, proc, clock, raw, out, service, report, fnPc>>

\* process.kill(); process.communicate(); lines 128-172 follow
scan_Kill ==
    /\ det.pc = "kill"
    /\ proc' = [proc EXCEPT !.state = IF @ = "running" THEN "killed" ELSE @, !.open = FALSE]
    /\ det' = [det EXCEPT !.pc = "returned", !.fileRead = OpensFile(det.findings),
                          !.result = FromFile(det.findings)]
    /\ UNCHANGED <<jobVars, clock, raw, out, service, report, fnPc>>

ScanSteps ==
    \/ scan_Popen
    \/ scan_Readline
    \/ scan_EndOfFile
    \/ scan_Communicate
    \/ scan_TimeoutExpired
    \/ scan_Kill

ToolSteps ==
    \/ \E kind \in LineKinds : proc_Emit(kind)
    \/ \E kind \in LineKinds : proc_WriteFile(kind)
    \/ proc_CloseStdout
    \/ proc_Exit

ScanNext == ScanSteps \/ ToolSteps \/ Tick

ScanInit ==
    /\ JobInit
    /\ cfg.target = OtherUrl /\ cfg.mode = "quick"
    /\ proc = NoProc
    /\ det = [NoScan EXCEPT !.pc = "start"]
    /\ clock = 0
    /\ raw = <<>> /\ out = <<>> /\ service = "unused" /\ report = <<>> /\ fnPc = "off"

\* scan's own steps are taken when they can be, and time passes; nothing
\* makes the tool write, close its output or exit
SpecScan ==
    ScanInit /\ [][ScanNext]_vars /\ WF_vars(ScanSteps) /\ WF_vars(Tick)

\* the options by which the tool is told to leave tags out
ExcludeOptions == {"-etags", "-exclude-tags"}

\* C21: every command line with which the detection tool is started holds
\* the option excluding the tags bruteforce, dos, network and intrusive,
\* whichever template directories exist.
C21_ExclusionCarried ==
    det.pc \notin {"off", "start"}
    => \E i \in 1..(Len(det.cmd) - 1) :
          det.cmd[i] \in ExcludeOptions /\ det.cmd[i + 1] = EXCLUDED_TAGS

\* the lines scan has taken from the pipe
LinesRead == SubSeq(proc.lines, 1, det.nread)

\* the line decodes as a structured record or matches the bracket pattern
Matches(line) == line.kind \in {"json", "bracket"}

\* C23: the findings parsed from the tool's output are, in line order, one
\* for each line read that decodes as a structured record or else matches
\* the bracket pattern, and nothing for any other line; scan does not return
\* before the output is exhausted.
C23_OneFindingPerMatchingLine ==
    /\ det.findings = SelectSeq(LinesRead, Matches)
    /\ (det.pc = "returned" /\ proc.state # "none") => det.eof

\* C24: once the tool's output is exhausted and scan returns, the output
\* file has been read if and only if the output gave no finding and the
\* file exists; when the output gave at least one finding, scan returns
\* exactly those findings, whatever the file holds.
C24_FileReadOnlyWhenStreamEmpty ==
    (det.pc = "returned" /\ det.eof)
    => /\ det.fileRead <=> (det.findings = <<>> /\ proc.exists)
       /\ det.findings # <<>> => det.result = det.findings
       /\ det.fileRead => det.result \in {Parsed(proc.file), <<>>}

\* the output gave a finding and the file holds another one: it is ignored
C24_Witness ==
    /\ det.pc = "returned" /\ det.eof
    /\ det.findings # <<>> /\ det.result = det.findings
    /\ proc.exists /\ Parsed(proc.file) # <<>>
    /\ ~det.fileRead

\* the tool is still running one timeout after it was started
Overdue == proc.state = "running" /\ clock >= TimeoutTicks

\* C20: a detection tool that has not exited by the timeout deadline, also
\* one that keeps its standard output open and never exits, is eventually
\* terminated, and scan returns.
C20_OverdueToolIsTerminated ==
    Overdue ~> (proc.state # "running" /\ det.pc = "returned")

----------------------------------------------------------------------------
(* save_history: the snapshot file receives the whole job table.  The    *)
(* function opens the file for writing (which empties it), dumps the table *)
(* into the file object and closes it; an exception of any of these is     *)
(* logged and swallowed.  No lock guards the file or the table.            *)

save_history(tbl) == tbl

\* how a call of save_history ends
SaveOutcomes ==
    CASE cfg.save = "unwritable" -> {"open_failed"}
      [] cfg.save = "undumpable" -> {"dump_failed"}
      [] OTHER -> {"written"}

\* a save_history that lets the exception of a failed write out
PropagatesFault(o) == o # "written"

\* except Exception as e: logger.error(...): nothing leaves save_history
Propagates(o) == FALSE

\* the file after a call that ended with outcome o
Saved(o) ==
    CASE o = "written" -> save_history(jobs)
      [] o = "open_failed" -> history
      [] o = "dump_failed" -> Garbled

\* open(HISTORY_FILE, 'w') and json.dump(jobs, f): the file is emptied and
\* the dump of the table waits in the file object of thread t
SaveOpen(t) ==
    /\ history' = Truncated
    /\ io' = [io EXCEPT ![t] = save_history(jobs)]

\* leaving the with block: the file object of thread t is flushed from the
\* start of the file.  Written over what another thread has put there since,
\* the file holds this thread's dump, or a mix of the two when the other
\* dump was the longer one.
SaveClose(t) ==
    /\ io[t] # NoBuf
    /\ history' \in IF history \in {Truncated, io[t]} THEN {io[t]} ELSE {io[t], Garbled}
    /\ io' = [io EXCEPT ![t] = NoBuf]

----------------------------------------------------------------------------
(* POST /scan *)

start_scan_Insert(user, target, mode) ==
    /\ api.op = "idle"
    /\ target = cfg.target /\ mode = cfg.mode
    /\ nextId <= MaxJobs
    /\ jobs' = Insert(jobs, nextId, NewJob(nextId, user, target, mode))
    /\ api' = InHandler("start253", nextId, user)
    /\ nextId' = nextId + 1
    /\ UNCHANGED <<cfg, files, fnVars, io, history, taskPc, world, exc, invoked>>

\* save_history(), then background_tasks.add_task(run_scan_job, ...)
InternalError == HttpError(500, <<"internal", "server", "error">>)

\* the rest of start_scan after save_history
start_scan_Queue ==
    /\ taskPc' = [taskPc EXCEPT ![api.id] = "queued"]
    /\ api' = Return(api.id, Ok(<<"scan", "started", "successfully.">>))

start_scan_SaveAndQueue ==
    /\ api.op = "start253"
    /\ IF cfg.save = "steps"
         THEN /\ SaveOpen(LoopThread)
              /\ api' = InHandler("start253_close", api.id, api.user)
              /\ taskPc' = taskPc
         ELSE \E o \in SaveOutcomes :
                /\ history' = Saved(o)
                /\ io' = io
                /\ IF Propagates(o)
                     THEN api' = Return(api.id, InternalError) /\ taskPc' = taskPc
                     ELSE start_scan_Queue
    /\ UNCHANGED <<cfg, files, fnVars, jobs, world, exc, invoked, nextId>>

start_scan_Close ==
    /\ api.op = "start253_close"
    /\ SaveClose(LoopThread)
    /\ start_scan_Queue
    /\ UNCHANGED <<cfg, files, fnVars, jobs, world, exc, invoked, nextId>>

----------------------------------------------------------------------------
(* POST /scan/{scan_id}/cancel *)

\* a check that also lets a failed or cancelled job through
CancellableUnlessCompleted(status) == status # "completed"

Cancellable(status) == status \in {"pending", "running"}

cancel_scan_Check(id, user) ==
    /\ api.op = "idle"
    /\ api' = IF id \notin DOMAIN jobs
                THEN Return(id, HttpError(404, <<"scan", "id", "not", "found">>))
              ELSE IF jobs[id].user_id # user
                THEN Return(id, HttpError(403, <<"not", "authorized", "to", "cancel", "this", "scan">>))
              ELSE IF Cancellable(jobs[id].status)
                THEN InHandler("cancel406", id, user)
              ELSE InHandler("cancel422", id, user)
    /\ UNCHANGED <<cfg, files, fnVars, io, jobs, history, taskPc, world, exc, invoked, nextId>>

\* line 422: the message reads job['status'] again
cancel_scan_Already ==
    /\ api.op = "cancel422"
    /\ api' = Return(api.id, Ok(<<"scan", "already", jobs[api.id].status>>))
    /\ UNCHANGED <<cfg, files, fnVars, io, jobs, history, taskPc, world, exc, invoked, nextId>>

\* a cancellation that ends the job's task as well
cancel_scan_StatusStopsTask ==
    /\ api.op = "cancel406"
    /\ jobs' = SetField(jobs, api.id, "status", "cancelled")
    /\ api' = InHandler("cancel407", api.id, api.user)
    /\ taskPc' = [taskPc EXCEPT ![api.id] = "done"]
    /\ UNCHANGED <<cfg, files, fnVars, io, history, world, exc, invoked, nextId>>

\* job["status"] = "cancelled"; job is the dict fetched at line 401
cancel_scan_Status ==
    /\ api.op = "cancel406"
    /\ jobs' = SetField(jobs, api.id, "status", "cancelled")
    /\ api' = InHandler("cancel407", api.id, api.user)
    /\ UNCHANGED <<cfg, files, fnVars, io, history, taskPc, world, exc, invoked, nextId>>

cancel_scan_Error ==
    /\ api.op = "cancel407"
    /\ jobs' = SetField(jobs, api.id, "error", CancelledMsg)
    /\ api' = InHandler("cancel408", api.id, api.user)
    /\ UNCHANGED <<cfg, files, fnVars, io, history, taskPc, world, exc, invoked, nextId>>

cancel_scan_Save ==
    /\ api.op = "cancel408"
    /\ IF cfg.save = "steps"
         THEN /\ SaveOpen(LoopThread)
              /\ api' = InHandler("cancel408_close", api.id, api.user)
         ELSE \E o \in SaveOutcomes :
                /\ history' = Saved(o)
                /\ io' = io
                /\ api' = IF Propagates(o) THEN Return(api.id, InternalError)
                          ELSE Return(api.id, Ok(<<"scan", "cancelled", "successfully">>))
    /\ UNCHANGED <<cfg, files, fnVars, jobs, taskPc, world, exc, invoked, nextId>>

cancel_scan_Close ==
    /\ api.op = "cancel408_close"
    /\ SaveClose(LoopThread)
    /\ api' = Return(api.id, Ok(<<"scan", "cancelled", "successfully">>))
    /\ UNCHANGED <<cfg, files, fnVars, jobs, taskPc, world, exc, invoked, nextId>>

----------------------------------------------------------------------------
(* DELETE /scan/{scan_id} (no database client configured) *)

delete_scan_Del(id, user) ==
    /\ api.op = "idle"
    /\ IF id \notin DOMAIN jobs
         THEN /\ api' = Return(id, HttpError(404, <<"scan", "id", "not", "found">>))
              /\ jobs' = jobs
         ELSE IF jobs[id].user_id # user
         THEN /\ api' = Return(id, HttpError(403, <<"not", "authorized", "to", "delete", "this", "scan">>))
              /\ jobs' = jobs
         ELSE /\ jobs' = Remove(jobs, id)
              /\ api' = InHandler("delete386", id, user)
    /\ UNCHANGED <<cfg, files, fnVars, io, history, taskPc, world, exc, invoked, nextId>>

delete_scan_Save ==
    /\ api.op = "delete386"
    /\ IF cfg.save = "steps"
         THEN /\ SaveOpen(LoopThread)
              /\ api' = InHandler("delete386_close", api.id, api.user)
         ELSE \E o \in SaveOutcomes :
                /\ history' = Saved(o)
                /\ io' = io
                /\ api' = IF Propagates(o) THEN Return(api.id, InternalError)
                          ELSE Return(api.id, Ok(<<"scan", "deleted", "successfully">>))
    /\ UNCHANGED <<cfg, files, fnVars, jobs, taskPc, world, exc, invoked, nextId>>

delete_scan_Close ==
    /\ api.op = "delete386_close"
    /\ SaveClose(LoopThread)
    /\ api' = Return(api.id, Ok(<<"scan", "deleted", "successfully">>))
    /\ UNCHANGED <<cfg, files, fnVars, jobs, taskPc, world, exc, invoked, nextId>>

----------------------------------------------------------------------------
(* run_scan_job, one step per statement that touches the job table or an   *)
(* external stage.  taskPc[id] names the line the task executes next.      *)

KeyErrorMsg(id) == <<"keyerror", id>>

\* an exception leaves run_scan_job
Escape(id, msg) ==
    /\ taskPc' = [taskPc EXCEPT ![id] = "crashed"]
    /\ exc' = [exc EXCEPT ![id] = msg]

\* line 130: jobs[scan_id]["status"] = "running"
run_scan_job_L130(id) ==
    /\ taskPc[id] = "queued"
    /\ IF id \in DOMAIN jobs
         THEN /\ jobs' = SetField(jobs, id, "status", "running")
              /\ taskPc' = [taskPc EXCEPT ![id] = "L131"]
              /\ exc' = exc
         ELSE /\ Escape(id, KeyErrorMsg(id))
              /\ jobs' = jobs
    /\ UNCHANGED <<cfg, files, fnVars, io, history, world, invoked, api, nextId>>

\* lines 131-133: start_time and user_id are stored on jobs[scan_id]
run_scan_job_L131(id) ==
    /\ taskPc[id] = "L131"
    /\ IF id \in DOMAIN jobs
         THEN /\ taskPc' = [taskPc EXCEPT ![id] = "L134"]
              /\ exc' = exc
         ELSE Escape(id, KeyErrorMsg(id))
    /\ UNCHANGED <<cfg, files, fnVars, io, jobs, history, world, invoked, api, nextId>>

\* line 134: save_history()
SaveErrorMsg == <<"save_history", "failed">>

run_scan_job_L134(id) ==
    /\ taskPc[id] = "L134"
    /\ IF cfg.save = "steps"
         THEN /\ SaveOpen(id)
              /\ taskPc' = [taskPc EXCEPT ![id] = "L134_close"]
              /\ exc' = exc
         ELSE \E o \in SaveOutcomes :
                /\ history' = Saved(o)
                /\ io' = io
                /\ IF Propagates(o)
                     THEN Escape(id, SaveErrorMsg)
                     ELSE taskPc' = [taskPc EXCEPT ![id] = "L146"] /\ exc' = exc
    /\ UNCHANGED <<cfg, files, fnVars, jobs, world, invoked, api, nextId>>

run_scan_job_L134_Close(id) ==
    /\ taskPc[id] = "L134_close"
    /\ SaveClose(id)
    /\ taskPc' = [taskPc EXCEPT ![id] = "L146"]
    /\ UNCHANGED <<cfg, files, fnVars, jobs, world, exc, invoked, api, nextId>>

\* discover returns the unique urls only when there is at least one; every
\* other outcome leaves it as an exception
\* a discovery that returns an empty list instead of raising
DiscoverRaisesUnlessEmpty(o) == o \notin {"ok", "zero"}

\* a discovery that takes a missing executable for an empty result
DiscoverRaisesUnlessMissing(o) == o \notin {"ok", "missing"}

DiscoverRaises(o) == o # "ok"

\* a handler that records a fixed text instead of the exception's
strGeneric(e) == <<"scan", "failed">>

\* str(e) of an Exception built from one message
str(e) == e

\* line 146: endpoints = discovery_layer.discover(target); a discovery that
\* finds urls writes them to results/endpoints.txt before it returns
run_scan_job_L146(id) ==
    /\ taskPc[id] = "L146"
    /\ \E w \in Worlds :
         /\ world' = [world EXCEPT ![id] = w]
         /\ IF ~DiscoverRaises(w.disc)
              THEN /\ taskPc' = [taskPc EXCEPT ![id] = "L152"]
                   /\ exc' = exc
              ELSE /\ taskPc' = [taskPc EXCEPT ![id] = "L219"]
                   /\ exc' = [exc EXCEPT ![id] = DiscoverError(w.disc)]
         /\ files' = IF DiscoverRaises(w.disc) THEN files
                      ELSE [files EXCEPT !.endpoints = id]
    /\ invoked' = [invoked EXCEPT ![id] = @ \cup {"discover"}]
    /\ UNCHANGED <<cfg, fnVars, io, jobs, history, api, nextId>>

\* DetectionLayer.scan(self, target_list_file) takes no mode parameter
ScanAcceptsMode == FALSE

\* line 152: raw_findings, stats = detection_layer.scan(endpoints_file, mode=mode)
run_scan_job_L152(id) ==
    /\ taskPc[id] = "L152"
    /\ ~ScanAcceptsMode
    /\ taskPc' = [taskPc EXCEPT ![id] = "L219"]
    /\ exc' = [exc EXCEPT ![id] = ScanModeTypeError]
    /\ UNCHANGED <<cfg, files, fnVars, io, jobs, history, world, invoked, api, nextId>>

\* line 219, in the except clause: jobs[scan_id]["status"] = "failed"
run_scan_job_L219(id) ==
    /\ taskPc[id] = "L219"
    /\ IF id \in DOMAIN jobs
         THEN /\ jobs' = SetField(jobs, id, "status", "failed")
              /\ taskPc' = [taskPc EXCEPT ![id] = "L220"]
              /\ exc' = exc
         ELSE /\ Escape(id, KeyErrorMsg(id))
              /\ jobs' = jobs
    /\ UNCHANGED <<cfg, files, fnVars, io, history, world, invoked, api, nextId>>

\* line 220: jobs[scan_id]["error"] = str(e)
run_scan_job_L220(id) ==
    /\ taskPc[id] = "L220"
    /\ IF id \in DOMAIN jobs
         THEN /\ jobs' = SetField(jobs, id, "error", str(exc[id]))
              /\ taskPc' = [taskPc EXCEPT ![id] = "L221"]
              /\ exc' = exc
         ELSE /\ Escape(id, KeyErrorMsg(id))
              /\ jobs' = jobs
    /\ UNCHANGED <<cfg, files, fnVars, io, history, world, invoked, api, nextId>>

\* line 221: save_history(); the task returns
run_scan_job_L221(id) ==
    /\ taskPc[id] = "L221"
    /\ IF cfg.save = "steps"
         THEN /\ SaveOpen(id)
              /\ taskPc' = [taskPc EXCEPT ![id] = "L221_close"]
              /\ exc' = exc
         ELSE \E o \in SaveOutcomes :
                /\ history' = Saved(o)
                /\ io' = io
                /\ IF Propagates(o)
                     THEN Escape(id, SaveErrorMsg)
                     ELSE taskPc' = [taskPc EXCEPT ![id] = "done"] /\ exc' = exc
    /\ UNCHANGED <<cfg, files, fnVars, jobs, world, invoked, api, nextId>>

run_scan_job_L221_Close(id) ==
    /\ taskPc[id] = "L221_close"
    /\ SaveClose(id)
    /\ taskPc' = [taskPc EXCEPT ![id] = "done"]
    /\ UNCHANGED <<cfg, files, fnVars, jobs, world, exc, invoked, api, nextId>>

----------------------------------------------------------------------------

\* the response leaves the process; the event loop takes the next request
http_Respond ==
    /\ api.op = "respond"
    /\ api' = ApiIdle
    /\ UNCHANGED <<cfg, files, fnVars, io, jobs, history, taskPc, world, exc, invoked, nextId>>

ApiNext ==
    \/ http_Respond
    \/ \E u \in Submitters, t \in Targets, m \in Modes : start_scan_Insert(u, t, m)
    \/ start_scan_SaveAndQueue
    \/ \E id \in ScanIds, u \in Users : cancel_scan_Check(id, u)
    \/ cancel_scan_Already
    \/ cancel_scan_Status
    \/ cancel_scan_Error
    \/ cancel_scan_Save
    \/ \E id \in ScanIds, u \in Users : delete_scan_Del(id, u)
    \/ delete_scan_Save

\* the next statement of the task of one job
TaskStep(id) ==
    \/ run_scan_job_L130(id)
    \/ run_scan_job_L131(id)
    \/ run_scan_job_L134(id)
    \/ run_scan_job_L146(id)
    \/ run_scan_job_L152(id)
    \/ run_scan_job_L219(id)
    \/ run_scan_job_L220(id)
    \/ run_scan_job_L221(id)

TaskNext ==
    \E id \in ScanIds :
        \/ run_scan_job_L130(id)
        \/ run_scan_job_L131(id)
        \/ run_scan_job_L134(id)
        \/ run_scan_job_L146(id)
        \/ run_scan_job_L152(id)
        \/ run_scan_job_L219(id)
        \/ run_scan_job_L220(id)
        \/ run_scan_job_L221(id)

Next == ApiNext \/ TaskNext

Spec == Init /\ [][Next]_vars

\* the same service with a snapshot file that cannot be written
InitFault ==
    /\ JobInitWith({"unwritable", "undumpable"})
    /\ cfg.target = OtherUrl /\ cfg.mode = "quick"
    /\ FnIdle

SpecFault == InitFault /\ [][Next]_vars

\* the same service with the two steps of save_history apart
CloseNext ==
    \/ start_scan_Close
    \/ cancel_scan_Close
    \/ delete_scan_Close
    \/ \E id \in ScanIds : run_scan_job_L134_Close(id)
    \/ \E id \in ScanIds : run_scan_job_L221_Close(id)

InitSave == JobInitWith({"steps"}) /\ FnIdle

SpecSave == InitSave /\ [][Next \/ CloseNext]_vars

\* What the snapshot file can hold when the service starts: nothing, a
\* half-written or mixed file, or the table an earlier process saved, with a
\* job in the status it had when that process ended.
Snapshots ==
    {EmptyTable, Truncated, Garbled}
    \cup {[id \in {1} |-> [NewJob(1, "u1", t, "quick") EXCEPT !.status = st,
                              !.error = IF st = "failed" THEN NoAttackSurfaceMsg
                                        ELSE IF st = "cancelled" THEN CancelledMsg
                                        ELSE None]]
            : t \in {OtherUrl}, st \in {"pending", "running", "failed", "cancelled"}}

\* load_history: the table is what json.load reads; when it raises, {}
load_history(file) == IF file \in {Truncated, Garbled} THEN EmptyTable ELSE file

\* the service starts on a snapshot; no task exists for a job it loads
InitLive ==
    /\ cfg = [target |-> OtherUrl, mode |-> "quick", save |-> "atomic"]
    /\ history \in Snapshots
    /\ jobs = load_history(history)
    /\ io = [t \in Threads |-> NoBuf]
    /\ files = NoFiles
    /\ taskPc = [id \in ScanIds |-> "unborn"]
    /\ world = [id \in ScanIds |-> NoWorld]
    /\ exc = [id \in ScanIds |-> None]
    /\ invoked = [id \in ScanIds |-> {}]
    /\ api = ApiIdle
    /\ nextId = Cardinality(DOMAIN jobs) + 1
    /\ FnIdle

\* A handler entered runs to its response, and the task of every job is
\* scheduled until it returns; every tool started exits (the stages are
\* single steps).  Nothing makes a client send a request.
SpecLive ==
    /\ InitLive /\ [][Next]_vars
    /\ WF_vars(http_Respond \/ start_scan_SaveAndQueue \/ cancel_scan_Already
                 \/ cancel_scan_Status \/ cancel_scan_Error \/ cancel_scan_Save
                 \/ delete_scan_Save)
    /\ \A id \in ScanIds : WF_vars(TaskStep(id))

\* jobs submitted one after the other whose tasks run side by side
PairJobs == 2
PairIds == 1..PairJobs

\* the state after PairJobs requests to start_scan have been answered
InitPair ==
    /\ cfg = [target |-> OtherUrl, mode |-> "quick", save |-> "atomic"]
    /\ jobs = [id \in PairIds |-> NewJob(id, "u1", cfg.target, cfg.mode)]
    /\ history = jobs
    /\ io = [t \in {LoopThread} \cup PairIds |-> NoBuf]
    /\ files = NoFiles
    /\ taskPc = [id \in PairIds |-> "queued"]
    /\ world = [id \in PairIds |-> NoWorld]
    /\ exc = [id \in PairIds |-> None]
    /\ invoked = [id \in PairIds |-> {}]
    /\ api = ApiIdle
    /\ nextId = PairJobs + 1
    /\ FnIdle

PairNext ==
    \E id \in PairIds :
        \/ run_scan_job_L130(id)
        \/ run_scan_job_L131(id)
        \/ run_scan_job_L134(id)
        \/ run_scan_job_L146(id)
        \/ run_scan_job_L152(id)
        \/ run_scan_job_L219(id)
        \/ run_scan_job_L220(id)
        \/ run_scan_job_L221(id)

SpecPair == InitPair /\ [][PairNext]_vars

----------------------------------------------------------------------------
(* Properties of the job lifecycle *)

Present(id) == id \in DOMAIN jobs
TaskDone(id) == taskPc[id] = "done"

\* C1: a job whose discovery returns at least one endpoint, whose detection
\* tool runs and exits normally and whose target is not the benchmark host
\* is, when run_scan_job returns, completed with a result attached.
C1_NormalRunCompletes ==
    \A id \in ScanIds :
        (TaskDone(id) /\ Present(id)
            /\ world[id].disc = "ok" /\ world[id].det = "normal"
            /\ ~IsBenchmark(jobs[id].target))
        => (jobs[id].status = "completed" /\ jobs[id].result # None)

\* C2: once a job's status is completed, failed or cancelled, no step of
\* run_scan_job or cancel_scan changes it to a different value.
C2_TerminalStatusIsFinal ==
    [][\A id \in ScanIds :
          (id \in DOMAIN jobs /\ id \in DOMAIN jobs'
              /\ jobs[id].status \in TerminalStatuses)
          => jobs'[id].status = jobs[id].status]_vars

\* C3: cancel_scan by the owner of a job whose status is completed, failed or
\* cancelled writes nothing to the job table and schedules no cancellation:
\* its check leads to the reply "Scan already <status>", <status> being the
\* job's status when the reply is built.
C3_CancelTerminalIsNoOp ==
    [][/\ \A id \in ScanIds, u \in Users :
             (cancel_scan_Check(id, u) /\ id \in DOMAIN jobs
                 /\ jobs[id].user_id = u /\ jobs[id].status \in TerminalStatuses)
             => (jobs' = jobs /\ history' = history /\ api'.op = "cancel422")
       /\ (api.op = "cancel422" /\ api' # api)
             => /\ jobs' = jobs /\ history' = history
                /\ api'.op = "respond"
                /\ api'.resp = Ok(<<"scan", "already", jobs[api.id].status>>)]_vars

C3_Witness ==
    /\ api.op = "respond"
    /\ api.id \in DOMAIN jobs
    /\ jobs[api.id].status = "failed"
    /\ jobs[api.id].error = ScanModeTypeError
    /\ api.resp = Ok(<<"scan", "already", "failed">>)

\* C5: when discovery yields zero unique endpoints, run_scan_job fails the
\* job: the detection stage and the later stages are not run, no result is
\* attached, the except clause stores status failed and an error mentioning
\* "no attack surface", and the task leaves the job failed with that error
\* (or cancelled, or with the cancellation text, where cancel_scan wrote last).
NoAttackSurfacePhrase == <<"no", "attack", "surface">>

ZeroEndpoints(id) == world[id].disc = "zero"

C5_ZeroEndpointsFailsJob ==
    /\ [](\A id \in ScanIds :
             ZeroEndpoints(id)
             => /\ invoked[id] = {"discover"}
                /\ taskPc[id] \in {"L219", "L220", "L221", "done", "crashed"}
                /\ Present(id) => jobs[id].result = None
                /\ (TaskDone(id) /\ Present(id))
                      => /\ jobs[id].status \in {"failed", "cancelled"}
                         /\ \/ Mentions(jobs[id].error, NoAttackSurfacePhrase)
                            \/ jobs[id].error = CancelledMsg)
    /\ [][\A id \in ScanIds :
             (ZeroEndpoints(id) /\ taskPc'[id] # taskPc[id])
             => /\ taskPc[id] = "L219" /\ taskPc'[id] # "crashed"
                   => jobs'[id].status = "failed"
                /\ taskPc[id] = "L220" /\ taskPc'[id] # "crashed"
                   => Mentions(jobs'[id].error, NoAttackSurfacePhrase)]_vars

C5_Witness ==
    \E id \in ScanIds :
        /\ TaskDone(id) /\ Present(id) /\ ZeroEndpoints(id)
        /\ jobs[id].status = "failed"
        /\ Mentions(jobs[id].error, NoAttackSurfacePhrase)
        /\ invoked[id] = {"discover"}

\* C6: when a pipeline stage raises, the except clause of run_scan_job stores
\* status failed and, as the error, the message of that exception; no result
\* is attached and the task never leaves the job pending, running or completed
\* (cancel_scan, where it wrote last, leaves cancelled or its own error text).
Raised(id) == exc[id] # None /\ taskPc[id] # "crashed"

C6_StageExceptionFailsJob ==
    /\ [](\A id \in ScanIds :
             (Raised(id) /\ Present(id))
             => /\ jobs[id].result = None
                /\ taskPc[id] \in {"L219", "L220", "L221", "done"}
                /\ TaskDone(id) => /\ jobs[id].status \in {"failed", "cancelled"}
                                    /\ jobs[id].error \in {exc[id], CancelledMsg})
    /\ [][\A id \in ScanIds :
             (Raised(id) /\ taskPc'[id] # taskPc[id] /\ taskPc'[id] # "crashed")
             => /\ taskPc[id] = "L219" => jobs'[id].status = "failed"
                /\ taskPc[id] = "L220" => jobs'[id].error = exc[id]]_vars

C6_Witness ==
    \E id \in ScanIds :
        /\ TaskDone(id) /\ Present(id)
        /\ exc[id] = DiscoveryTimedOutMsg
        /\ jobs[id].status = "failed"
        /\ jobs[id].error = DiscoveryTimedOutMsg
        /\ jobs[id].result = None

\* C7: when the detection tool runs past the timeout after it has written
\* valid finding lines, the job is not failed and those findings are handed
\* to prioritize.
C7_TimeoutFindingsReachPrioritize ==
    \A id \in ScanIds :
        (TaskDone(id) /\ Present(id)
            /\ world[id].disc = "ok" /\ world[id].det = "timeout"
            /\ world[id].emitted > 0)
        => (jobs[id].status # "failed" /\ "prioritize" \in invoked[id])

\* C8: when the target is the benchmark host and detection returns zero
\* findings, the job ends failed with the scanner-validation-failed message.
C8_BenchmarkGateFails ==
    \A id \in ScanIds :
        (TaskDone(id) /\ Present(id)
            /\ IsBenchmark(jobs[id].target)
            /\ world[id].disc = "ok" /\ world[id].det = "normal"
            /\ world[id].emitted = 0)
        => (jobs[id].status = "failed" /\ jobs[id].error = ValidationFailedMsg)

\* the executable of the stage's tool is not found
ToolMissing(id) == world[id].disc = "missing" \/ world[id].det = "missing"

CancelStep ==
    \/ api.op = "idle" /\ api'.op \in {"cancel406", "cancel422"}
    \/ api.op \in {"cancel406", "cancel407", "cancel408", "cancel422"} /\ api' # api

\* the task is at a statement of run_scan_job
InTask(id) ==
    taskPc[id] \in {"queued", "L131", "L134", "L146", "L152", "L219", "L220", "L221"}

\* the stages a task has invoked when it is at a statement
StagesBy(pc) == IF pc \in {"unborn", "queued", "L131", "L134", "L146"} THEN {} ELSE {"discover"}

\* C25: cancel_scan stops and skips nothing of the job's task: none of its
\* steps moves the task or touches what the task has invoked, raised or
\* been given by its tools; whatever the job's status, the task's next
\* statement can be executed, and the stages invoked so far are those of the
\* statement it has reached.
C25_CancelStopsNoStage ==
    /\ [](\A id \in ScanIds :
             /\ InTask(id) => ENABLED TaskStep(id)
             /\ taskPc[id] # "crashed" => invoked[id] = StagesBy(taskPc[id]))
    /\ [][CancelStep
          => /\ taskPc' = taskPc /\ invoked' = invoked
             /\ world' = world /\ exc' = exc]_vars

\* the job was cancelled before its discovery stage, which is still due
C25_Witness ==
    \E id \in ScanIds :
        /\ Present(id) /\ taskPc[id] = "L146"
        /\ jobs[id].status = "cancelled" /\ jobs[id].error = CancelledMsg
        /\ api.op = "idle"

\* the task is between its two writes of the except clause, or cancel_scan
\* between its two writes
MidWrite(id) == taskPc[id] = "L220" \/ (api.op = "cancel407" /\ api.id = id)

\* C27: whenever neither the task nor cancel_scan is between its two writes,
\* the fields of a job agree: completed goes with no error, failed with the
\* message of the exception the task caught, cancelled with "Scan was
\* cancelled by user".
C27_FieldsConsistent ==
    \A id \in ScanIds :
        (Present(id) /\ ~MidWrite(id))
        => /\ jobs[id].status = "completed" => jobs[id].error = None
           /\ jobs[id].status = "failed" => jobs[id].error = str(exc[id])
           /\ jobs[id].status = "cancelled" => jobs[id].error = CancelledMsg

\* C28: no exception leaves run_scan_job, whatever delete_scan and
\* cancel_scan requests interleave with it.
C28_NoExceptionEscapes ==
    \A id \in ScanIds : taskPc[id] # "crashed"

\* delete_scan has removed the job and not answered yet
Deleting(id) == api.op = "delete386" /\ api.id = id

\* the job was submitted and is no longer in the table
Deleted(id) == id < nextId /\ id \notin DOMAIN jobs

\* C29: when delete_scan has removed a job, its id is not in the job table,
\* and no later step puts it back: the steps of the job's task that follow
\* find no entry and leave the table as it is.
C29_DeletedStaysAbsent ==
    /\ [](\A id \in ScanIds : Deleting(id) => Deleted(id))
    /\ [][\A id \in ScanIds :
             Deleted(id) => (id \notin DOMAIN jobs' /\ (taskPc'[id] # taskPc[id] => jobs' = jobs))]_vars

\* the job was deleted while its task ran, and the task has ended since
C29_Witness ==
    \E id \in ScanIds :
        /\ Deleted(id) /\ api.op = "idle"
        /\ taskPc[id] = "crashed" /\ "discover" \in invoked[id]

\* C26: with several jobs running side by side, the endpoint list a job's
\* detection stage is given is the one that job's own discovery wrote.
C26_DetectionScansOwnEndpoints ==
    \A id \in PairIds : taskPc[id] = "L152" => files.endpoints = id

\* the job is in the table with status pending or running
Unfinished(id) == Present(id) /\ jobs[id].status \in {"pending", "running"}

\* C31: every job in the table with status pending or running is eventually
\* deleted or has another status, the task of every job being scheduled
\* fairly and every tool and explanation call returning.
C31_EveryJobFinishes ==
    \A id \in ScanIds : Unfinished(id) ~> ~Unfinished(id)

\* no mutating operation is under way: the event loop is between handlers
\* and every task is before its first write, inside a stage, or over
Quiescent ==
    /\ api.op \in {"idle", "respond"}
    /\ \A id \in ScanIds : taskPc[id] \in {"unborn", "queued", "L146", "L152", "done", "crashed"}

\* C18: whenever no mutating operation is under way, the snapshot file holds
\* exactly the job table in memory (no write of the snapshot fails).
C18_SnapshotIsTable ==
    Quiescent => history = jobs

\* the steps of the operations that call save_history
SaveByTask(id) == taskPc[id] \in {"L134", "L221"} /\ taskPc'[id] # taskPc[id]
SaveByHandler == api.op \in {"start253", "cancel408", "delete386"} /\ api' # api

\* C19: a call of save_history whose write fails changes nothing in the job
\* table and raises nothing: the task goes on to its next statement, the
\* handler queues the task or answers as it does after a successful write.
C19_SaveFailureNotPropagated ==
    [][/\ \A id \in ScanIds :
             (SaveByTask(id) /\ history' # jobs)
             => /\ jobs' = jobs /\ exc' = exc
                /\ taskPc'[id] = (IF taskPc[id] = "L134" THEN "L146" ELSE "done")
       /\ (SaveByHandler /\ history' # jobs)
             => /\ jobs' = jobs
                /\ api'.op = "respond" /\ api'.resp.code = 200
                /\ api.op = "start253" => taskPc'[api.id] = "queued"]_vars

\* every save of the run failed half way; the job is failed with the
\* discovery's message all the same, and the file is no snapshot of it
C19_Witness ==
    \E id \in ScanIds :
        /\ TaskDone(id) /\ Present(id)
        /\ history = Garbled
        /\ jobs[id].status = "failed"
        /\ jobs[id].error = NoAttackSurfaceMsg
        /\ api.op = "idle"

====
